---- MODULE Spec2Model ----
(***************************************************************************)
(* Verification model of the demo data service: the DatabaseManager data   *)
(* access layer (Tools/db.py) over the Users / Posts / Tags schema          *)
(* (Tools/models.py) and the REST, GraphQL and RPC adapters that call it.   *)
(*                                                                          *)
(* The relational store is a record of three tables (functions from the    *)
(* ids of the existing rows to rows) and the posts_tags association set.    *)
(* A session holds at most one open transaction, whose view of the store    *)
(* (the committed rows plus the flushed, uncommitted writes) is `work`.     *)
(* None (Python) is the string "None" for scalars and the id 0 for a        *)
(* session or a row reference.                                              *)
(***************************************************************************)
EXTENDS Integers, Sequences, FiniteSets, TLC

VARIABLES
    db,        \* the committed store
    seq,       \* the id sequences of the three tables (not transactional)
    _session,  \* DatabaseManager._session: the id of the session object, 0 = None
    work,      \* the open transaction of the session: [active, w]
    last,      \* the last completed call: operation, arguments, outcome, store before
    reqs,      \* the requests a service is handling: position, session in use, call
    adhoc,     \* history: the rows in the store that a create_* call made, <<table, id>>
    now,       \* the clock datetime.utcnow reads
    opened     \* the number of Session objects the manager has constructed

vars == <<db, seq, _session, work, last, reqs, adhoc, now, opened>>

-----------------------------------------------------------------------------
(* Bounds *)

MaxUserId == 2
MaxPostId == 2
MaxTagId == 2
MaxTagIds == 2
NumRequests == 2
MaxStrLen == 2
MaxPage == 2
MaxClock == 3
MaxSessions == 2

(* Value domains of the modelled columns *)
None == "None"
FirstNames == {"f1"}
Nicknames == {"n1", "n2"}
JobTitles == {"j1"}
Titles == {"t1", "t2"}
Contents == {"c1"}
TagTitles == {"x", "y"}

UserIds == 1..MaxUserId
PostIds == 1..MaxPostId
TagIds == 1..MaxTagId

\* tag_ids arguments: lists (repetitions allowed) of ids, known or unknown
TagIdLists == UNION {[1..n -> TagIds] : n \in 0..MaxTagIds}

-----------------------------------------------------------------------------
(* Schema: Tools/models.py *)

EmptyStore == [users |-> <<>>, posts |-> <<>>, tags |-> <<>>, posts_tags |-> {}]

\* columns declared Mapped[str] / Mapped[bool] (not Optional) are NOT NULL
\* (Post.author_id too: it is set from an existing user and no update names it)
NotNullColumns ==
    [users |-> {"first_name", "nickname"}, posts |-> {"title", "content"},
     tags |-> {"title"}]

\* a slip: unique=True left out of User.nickname
UniqueColumns_no_nickname == [users |-> {}, posts |-> {}, tags |-> {"title"}]

\* columns declared unique=True
UniqueColumns == [users |-> {"nickname"}, posts |-> {}, tags |-> {"title"}]

Tables == {"users", "posts", "tags"}

NotNullViolation(w) ==
    \E t \in Tables : \E i \in DOMAIN w[t] : \E c \in NotNullColumns[t] : w[t][i][c] = None

UniqueViolation(w) ==
    \E t \in Tables : \E i, j \in DOMAIN w[t] : \E c \in UniqueColumns[t] :
        i # j /\ w[t][i][c] = w[t][j][c]

\* what the store answers to the statements of a flush
IntegrityError(w) == NotNullViolation(w) \/ UniqueViolation(w)

Remove(f, ids) == [i \in DOMAIN f \ ids |-> f[i]]

\* Post.tags of a post, as the set of tag ids
TagsOf(w, post_id) == {pt[2] : pt \in {x \in w.posts_tags : x[1] = post_id}}

-----------------------------------------------------------------------------
(* Validation schemas (Tools/schemas): an Update object is its field values  *)
(* and the set of fields that were explicitly passed (pydantic fields_set).  *)

UserUpdateFields == {"first_name", "nickname", "job_title"}
PostUpdateFields == {"title", "content", "tag_ids"}
TagUpdateFields == {"title"}

\* a tag_ids value: None or a list
NoneIds == [isNone |-> TRUE, ids |-> <<>>]
IdList(ids) == [isNone |-> FALSE, ids |-> ids]

Range(s) == {s[i] : i \in DOMAIN s}

\* a slip: model_dump() without exclude_unset, the defaults are dumped too
model_dump_all(obj) == obj.values

\* model_dump(exclude_unset=True): the dict of the explicitly set fields
model_dump_exclude_unset(obj) == [k \in obj.fields_set |-> obj.values[k]]

-----------------------------------------------------------------------------
(* Data access layer: Tools/db.py.  Each operation body maps the            *)
(* transaction's view w of the store and the sequences sq to an outcome:    *)
(* the view after the body's flushes, the sequences, the returned value     *)
(* (ret, with the id of the returned projection) and the raised exception.  *)

Outcome(w, sq, ret, id, err, missing) ==
    [w |-> w, seq |-> sq, ret |-> ret, id |-> id, err |-> err, missing |-> missing]

\* session.get(model, id): the id of the row, 0 (None) when no row matches
_get_by_id(w, model, id) == IF id \in DOMAIN w[model] THEN id ELSE 0

\* model(**data); session.add; session.flush: the INSERT draws the next id
_create(w, sq, model, data) ==
    LET id == sq[model]
        w1 == [w EXCEPT ![model] = (id :> data) @@ w[model]]
        sq1 == [sq EXCEPT ![model] = id + 1]
    IN  IF IntegrityError(w1)
        THEN Outcome(w, sq1, "None", 0, "IntegrityError", {})
        ELSE Outcome(w1, sq1, "Row", id, "None", {})

\* Post.updated_at, onupdate=datetime.utcnow: the flush stamps the row when it
\* writes an UPDATE of it, that is when a column of the row has changed
onupdate(model, row, row1) ==
    IF model = "posts" /\ row1 # row THEN [row1 EXCEPT !.updated_at = now] ELSE row1

\* setattr for every key of data that is an attribute; session.flush
_update(w, sq, model, id, data) ==
    LET row == w[model][id]
        set == [c \in DOMAIN row |-> IF c \in DOMAIN data THEN data[c] ELSE row[c]]
        row1 == onupdate(model, row, set)
        w1 == [w EXCEPT ![model] = [w[model] EXCEPT ![id] = row1]]
    IN  IF IntegrityError(w1)
        THEN Outcome(w, sq, "None", 0, "IntegrityError", {})
        ELSE Outcome(w1, sq, "Row", id, "None", {})

\* a slip: no cascade from User to Post (the user's posts are kept)
_delete_no_cascade(w, model, id) ==
    LET gonePosts == IF model = "posts" THEN {id} ELSE {}
        goneTags == IF model = "tags" THEN {id} ELSE {}
    IN  [users |-> IF model = "users" THEN Remove(w.users, {id}) ELSE w.users,
         posts |-> Remove(w.posts, gonePosts),
         tags |-> Remove(w.tags, goneTags),
         posts_tags |-> {pt \in w.posts_tags : pt[1] \notin gonePosts /\ pt[2] \notin goneTags}]

\* a slip: the posts_tags rows of a deleted tag are kept
_delete_keep_links(w, model, id) ==
    LET gonePosts == IF model = "users" THEN {p \in DOMAIN w.posts : w.posts[p].author_id = id}
                     ELSE IF model = "posts" THEN {id} ELSE {}
        goneTags == IF model = "tags" THEN {id} ELSE {}
    IN  [users |-> IF model = "users" THEN Remove(w.users, {id}) ELSE w.users,
         posts |-> Remove(w.posts, gonePosts),
         tags |-> Remove(w.tags, goneTags),
         posts_tags |-> {pt \in w.posts_tags : pt[1] \notin gonePosts}]

\* a slip: the posts_tags rows of a deleted post are kept
_delete_post_keeps_links(w, model, id) ==
    LET gonePosts == IF model = "users" THEN {p \in DOMAIN w.posts : w.posts[p].author_id = id}
                     ELSE IF model = "posts" THEN {id} ELSE {}
        goneTags == IF model = "tags" THEN {id} ELSE {}
    IN  [users |-> IF model = "users" THEN Remove(w.users, {id}) ELSE w.users,
         posts |-> Remove(w.posts, gonePosts),
         tags |-> Remove(w.tags, goneTags),
         posts_tags |-> {pt \in w.posts_tags : pt[2] \notin goneTags}]

\* a slip: a cascade from Tag to its posts (deleting a tag deletes them)
_delete_tag_takes_posts(w, model, id) ==
    LET gonePosts == IF model = "users" THEN {p \in DOMAIN w.posts : w.posts[p].author_id = id}
                     ELSE IF model = "posts" THEN {id}
                     ELSE {p \in DOMAIN w.posts : <<p, id>> \in w.posts_tags}
        goneTags == IF model = "tags" THEN {id} ELSE {}
    IN  [users |-> IF model = "users" THEN Remove(w.users, {id}) ELSE w.users,
         posts |-> Remove(w.posts, gonePosts),
         tags |-> Remove(w.tags, goneTags),
         posts_tags |-> {pt \in w.posts_tags : pt[1] \notin gonePosts /\ pt[2] \notin goneTags}]

\* session.delete; session.flush, with the cascades the schema declares:
\* User.posts cascade="all, delete-orphan"; posts_tags rows go with either side
_delete(w, model, id) ==
    LET gonePosts == IF model = "users" THEN {p \in DOMAIN w.posts : w.posts[p].author_id = id}
                     ELSE IF model = "posts" THEN {id} ELSE {}
        goneTags == IF model = "tags" THEN {id} ELSE {}
    IN  [users |-> IF model = "users" THEN Remove(w.users, {id}) ELSE w.users,
         posts |-> Remove(w.posts, gonePosts),
         tags |-> Remove(w.tags, goneTags),
         posts_tags |-> {pt \in w.posts_tags : pt[1] \notin gonePosts /\ pt[2] \notin goneTags}]

create_user(w, sq, user_data) == _create(w, sq, "users", user_data)

update_user(w, sq, user_id, user_data) ==
    IF _get_by_id(w, "users", user_id) # 0
    THEN _update(w, sq, "users", user_id, model_dump_exclude_unset(user_data))
    ELSE Outcome(w, sq, "None", 0, "None", {})

delete_user(w, sq, user_id) ==
    IF _get_by_id(w, "users", user_id) # 0
    THEN Outcome(_delete(w, "users", user_id), sq, "True", user_id, "None", {})
    ELSE Outcome(w, sq, "False", 0, "None", {})

\* select(Tag).where(Tag.id.in_(tag_ids)): the rows, each once
SelectTags(w, tag_ids) == Range(tag_ids) \cap DOMAIN w.tags

\* a slip in the comparison: > for !=
TagsMissing_gt(tags, tag_ids) == Cardinality(tags) > Len(tag_ids)

\* len(tags) != len(tag_ids)
TagsMissing(tags, tag_ids) == Cardinality(tags) # Len(tag_ids)

\* a slip: the found tags are not subtracted
MissingIds_all(tags, tag_ids) == Range(tag_ids)

\* set(tag_ids) - {tag.id for tag in tags}
MissingIds(tags, tag_ids) == Range(tag_ids) \ tags

\* a slip: db_post.tags.extend(tags), the new tags are added to the old ones
ReplaceTags_extend(w, post_id, tags) ==
    [w EXCEPT !.posts_tags = @ \cup {<<post_id, t>> : t \in tags}]

\* db_post.tags = tags: the collection is replaced
ReplaceTags(w, post_id, tags) ==
    [w EXCEPT !.posts_tags = {pt \in @ : pt[1] # post_id} \cup {<<post_id, t>> : t \in tags}]

\* a slip: the tags found are not attached to the new post
create_post_no_tags(w, sq, author_id, post_data) ==
    IF _get_by_id(w, "users", author_id) = 0
    THEN Outcome(w, sq, "None", 0, "None", {})
    ELSE LET post == [author_id |-> author_id, title |-> post_data.title,
                      content |-> post_data.content, updated_at |-> now]
             given == ~post_data.tag_ids.isNone /\ Len(post_data.tag_ids.ids) > 0
             tags == IF given THEN SelectTags(w, post_data.tag_ids.ids) ELSE {}
         IN  IF given /\ TagsMissing(tags, post_data.tag_ids.ids)
             THEN Outcome(w, sq, "None", 0, "ValueError", MissingIds(tags, post_data.tag_ids.ids))
             ELSE Outcome([w EXCEPT !.posts = (sq.posts :> post) @@ w.posts],
                          [sq EXCEPT !.posts = @ + 1], "Row", sq.posts, "None", {})

\* a slip: the tags are looked up before the author is
create_post_tags_first(w, sq, author_id, post_data) ==
    LET post == [author_id |-> author_id, title |-> post_data.title,
                 content |-> post_data.content, updated_at |-> now]
        given == ~post_data.tag_ids.isNone /\ Len(post_data.tag_ids.ids) > 0
        tags == IF given THEN SelectTags(w, post_data.tag_ids.ids) ELSE {}
    IN  IF given /\ TagsMissing(tags, post_data.tag_ids.ids)
        THEN Outcome(w, sq, "None", 0, "ValueError", MissingIds(tags, post_data.tag_ids.ids))
        ELSE IF _get_by_id(w, "users", author_id) = 0
             THEN Outcome(w, sq, "None", 0, "None", {})
             ELSE LET id == sq.posts
                      w1 == [w EXCEPT !.posts = (id :> post) @@ w.posts,
                                      !.posts_tags = @ \cup {<<id, t>> : t \in tags}]
                      sq1 == [sq EXCEPT !.posts = id + 1]
                  IN  Outcome(w1, sq1, "Row", id, "None", {})

create_post(w, sq, author_id, post_data) ==
    IF _get_by_id(w, "users", author_id) = 0
    THEN Outcome(w, sq, "None", 0, "None", {})
    ELSE LET post == [author_id |-> author_id, title |-> post_data.title,
                      content |-> post_data.content, updated_at |-> now]
             given == ~post_data.tag_ids.isNone /\ Len(post_data.tag_ids.ids) > 0
             tags == IF given THEN SelectTags(w, post_data.tag_ids.ids) ELSE {}
         IN  IF given /\ TagsMissing(tags, post_data.tag_ids.ids)
             THEN Outcome(w, sq, "None", 0, "ValueError", MissingIds(tags, post_data.tag_ids.ids))
             ELSE LET id == sq.posts
                      w1 == [w EXCEPT !.posts = (id :> post) @@ w.posts,
                                      !.posts_tags = @ \cup {<<id, t>> : t \in tags}]
                      sq1 == [sq EXCEPT !.posts = id + 1]
                  IN  IF IntegrityError(w1)
                      THEN Outcome(w, sq1, "None", 0, "IntegrityError", {})
                      ELSE Outcome(w1, sq1, "Row", id, "None", {})

\* a slip: the tags are looked up before the post is
update_post_tags_first(w, sq, post_id, post_data) ==
    LET dumped == model_dump_exclude_unset(post_data)
        hasTags == "tag_ids" \in DOMAIN dumped
        tag_ids == IF hasTags THEN dumped["tag_ids"] ELSE NoneIds
        update_data == [k \in DOMAIN dumped \ {"tag_ids"} |-> dumped[k]]
        replace == hasTags /\ ~tag_ids.isNone
        tags == IF replace THEN SelectTags(w, tag_ids.ids) ELSE {}
    IN  IF replace /\ TagsMissing(tags, tag_ids.ids)
        THEN Outcome(w, sq, "None", 0, "ValueError", MissingIds(tags, tag_ids.ids))
        ELSE IF _get_by_id(w, "posts", post_id) = 0
             THEN Outcome(w, sq, "None", 0, "None", {})
             ELSE LET w1 == IF replace THEN ReplaceTags(w, post_id, tags) ELSE w
                  IN  _update(w1, sq, "posts", post_id, update_data)

\* a slip: the truthiness test of create_post, an empty list replaces nothing
update_post_truthy_tags(w, sq, post_id, post_data) ==
    IF _get_by_id(w, "posts", post_id) = 0
    THEN Outcome(w, sq, "None", 0, "None", {})
    ELSE LET dumped == model_dump_exclude_unset(post_data)
             hasTags == "tag_ids" \in DOMAIN dumped
             tag_ids == IF hasTags THEN dumped["tag_ids"] ELSE NoneIds
             update_data == [k \in DOMAIN dumped \ {"tag_ids"} |-> dumped[k]]
             replace == hasTags /\ ~tag_ids.isNone /\ Len(tag_ids.ids) > 0
             tags == IF replace THEN SelectTags(w, tag_ids.ids) ELSE {}
         IN  IF replace /\ TagsMissing(tags, tag_ids.ids)
             THEN Outcome(w, sq, "None", 0, "ValueError", MissingIds(tags, tag_ids.ids))
             ELSE LET w1 == IF replace THEN ReplaceTags(w, post_id, tags) ELSE w
                  IN  _update(w1, sq, "posts", post_id, update_data)

update_post(w, sq, post_id, post_data) ==
    IF _get_by_id(w, "posts", post_id) = 0
    THEN Outcome(w, sq, "None", 0, "None", {})
    ELSE LET dumped == model_dump_exclude_unset(post_data)
             hasTags == "tag_ids" \in DOMAIN dumped
             tag_ids == IF hasTags THEN dumped["tag_ids"] ELSE NoneIds
             update_data == [k \in DOMAIN dumped \ {"tag_ids"} |-> dumped[k]]
             replace == hasTags /\ ~tag_ids.isNone
             tags == IF replace THEN SelectTags(w, tag_ids.ids) ELSE {}
         IN  IF replace /\ TagsMissing(tags, tag_ids.ids)
             THEN Outcome(w, sq, "None", 0, "ValueError", MissingIds(tags, tag_ids.ids))
             ELSE LET w1 == IF replace THEN ReplaceTags(w, post_id, tags) ELSE w
                  IN  _update(w1, sq, "posts", post_id, update_data)

\* a slip: True is returned whether or not a row was found
delete_post_always_true(w, sq, post_id) ==
    IF _get_by_id(w, "posts", post_id) # 0
    THEN Outcome(_delete(w, "posts", post_id), sq, "True", post_id, "None", {})
    ELSE Outcome(w, sq, "True", 0, "None", {})

delete_post(w, sq, post_id) ==
    IF _get_by_id(w, "posts", post_id) # 0
    THEN Outcome(_delete(w, "posts", post_id), sq, "True", post_id, "None", {})
    ELSE Outcome(w, sq, "False", 0, "None", {})

create_tag(w, sq, tag_data) == _create(w, sq, "tags", tag_data)

update_tag(w, sq, tag_id, tag_data) ==
    IF _get_by_id(w, "tags", tag_id) # 0
    THEN _update(w, sq, "tags", tag_id, model_dump_exclude_unset(tag_data))
    ELSE Outcome(w, sq, "None", 0, "None", {})

delete_tag(w, sq, tag_id) ==
    IF _get_by_id(w, "tags", tag_id) # 0
    THEN Outcome(_delete(w, "tags", tag_id), sq, "True", tag_id, "None", {})
    ELSE Outcome(w, sq, "False", 0, "None", {})

\* select(Model).filter(Model.id == id) ... scalar_one_or_none()
SelectById(w, sq, model, id) ==
    IF id \in DOMAIN w[model]
    THEN Outcome(w, sq, "Row", id, "None", {})
    ELSE Outcome(w, sq, "None", 0, "None", {})

get_user(w, sq, user_id) == SelectById(w, sq, "users", user_id)
get_post(w, sq, post_id) == SelectById(w, sq, "posts", post_id)
get_tag(w, sq, tag_id) == SelectById(w, sq, "tags", tag_id)

-----------------------------------------------------------------------------
(* Session handling: DatabaseManager.__init__, get_session, close_session   *)

NoWork == [active |-> FALSE, w |-> EmptyStore]

\* get_session, before the yield: the session is created on first use (the
\* sessions are numbered in the order of their construction)
get_session_enter(sess) == IF sess = 0 THEN opened + 1 ELSE sess

\* the store as the session's transaction sees it (a transaction begins on first use)
View(wk, dbc) == IF wk.active THEN wk.w ELSE dbc

\* a slip: no except branch, the failed transaction stays open
get_session_exit_no_rollback(dbc, out) ==
    IF out.err = "None"
    THEN [db |-> out.w, work |-> NoWork, end |-> "commit", raised |-> "None"]
    ELSE [db |-> dbc, work |-> [active |-> TRUE, w |-> out.w], end |-> "none",
          raised |-> out.err]

\* get_session, after the yield: commit on normal completion of the body
\* (an early return included), rollback when the body raised
get_session_exit(dbc, out) ==
    IF out.err = "None"
    THEN [db |-> out.w, work |-> NoWork, end |-> "commit", raised |-> "None"]
    ELSE [db |-> dbc, work |-> NoWork, end |-> "rollback", raised |-> out.err]

\* the except clauses of the REST handlers that wrap their call in try, in the
\* order they are written: the exception class caught and the status raised
ExceptClauses(op) ==
    IF op = "update_user" THEN << <<"Exception", 400>> >>
    ELSE << <<"ValueError", 400>>, <<"Exception", 500>> >>

\* isinstance: every exception is an Exception, HTTPException included
IsInstance(exc, class) == class = "Exception" \/ exc = class

\* what the try block of the handler raises: the exception of the manager, or
\* the handler's own HTTPException(404) when the manager returned None
Raised(ret, err) ==
    IF err # "None" THEN err ELSE IF ret = "None" THEN "HTTPException" ELSE "None"

\* the status of the response: of the first except clause that catches what
\* the try block raised, else the success status of the route
Respond(op, ret, err) ==
    LET exc == Raised(ret, err)
        clauses == ExceptClauses(op)
        catching == {i \in DOMAIN clauses : IsInstance(exc, clauses[i][1])}
        first == CHOOSE i \in catching : \A j \in catching : i <= j
    IN  IF exc = "None" THEN (IF op = "create_post" THEN 201 ELSE 200)
        ELSE IF catching = {} THEN 404
        ELSE clauses[first][2]

\* what the caller of an operation is left with; a REST client with the status
\* of the response
Result(op, args, out, fin, pre) ==
    [op |-> op, args |-> args, ret |-> IF fin.raised = "None" THEN out.ret ELSE "None",
     id |-> IF fin.raised = "None" THEN out.id ELSE 0,
     err |-> fin.raised, missing |-> out.missing, body |-> out.err, flushed |-> out.w,
     end |-> fin.end, pre |-> pre, adhoc |-> adhoc,
     status |-> IF "via" \in DOMAIN args /\ args.via = "rest"
                THEN Respond(op, IF fin.raised = "None" THEN out.ret ELSE "None", fin.raised)
                ELSE 0]

\* the row a successful create_* call has added
Created(op, out, fin) ==
    IF op \in {"create_user", "create_post", "create_tag"} /\ fin.raised = "None" /\ out.ret = "Row"
    THEN {<<IF op = "create_user" THEN "users" ELSE IF op = "create_post" THEN "posts" ELSE "tags",
            out.id>>}
    ELSE {}

\* one public operation of the manager, from call to return or raise; the
\* caller calls again once it has taken the previous result
Invoke(op, args, out) ==
    LET fin == get_session_exit(db, out)
    IN  /\ last.op = "none"
        /\ _session' = get_session_enter(_session)
        /\ db' = fin.db
        /\ work' = fin.work
        /\ seq' = out.seq
        /\ last' = Result(op, args, out, fin, db)

Call(op, args, out) == Invoke(op, args, out) /\ UNCHANGED <<reqs, adhoc, now, opened>>

\* the same call, with the history of the rows made by create_* kept:
\* the created row joins it, removed rows leave it
AdHoc(op, args, out) ==
    LET fin == get_session_exit(db, out)
    IN  /\ Invoke(op, args, out)
        /\ adhoc' = {x \in adhoc \cup Created(op, out, fin) : x[2] \in DOMAIN fin.db[x[1]]}
        /\ UNCHANGED <<reqs, now, opened>>

-----------------------------------------------------------------------------
(* reset_database and the bundled seed script SQL/dummy_data.sql             *)

\* a slip: drop_all left out, the rows of the old tables stay
FreshStore_not_dropped == db

\* Base.metadata.drop_all; Base.metadata.create_all: empty tables, new sequences
FreshStore == EmptyStore
FreshSeq == [users |-> 1, posts |-> 1, tags |-> 1]

\* the script, split on ";": one INSERT per statement
SeedStatements ==
    << [table |-> "tags", row |-> [title |-> "x"]],
       [table |-> "users",
        row |-> [first_name |-> "f1", nickname |-> "n1", job_title |-> "j1"]],
       [table |-> "posts",
        row |-> [author_id |-> 1, title |-> "t1", content |-> "c1", updated_at |-> 0]],
       [table |-> "posts_tags", row |-> <<1, 1>>] >>

\* a script whose k-th statement the store refuses (a NULL in a NOT NULL column)
FailingStatement == [table |-> "tags", row |-> [title |-> None]]
FaultyScript(k) ==
    [i \in 1..Len(SeedStatements) |-> IF i = k THEN FailingStatement ELSE SeedStatements[i]]

\* the scripts reset_database may find at SQL_DIR / "dummy_data.sql": the
\* bundled one (0) or one whose k-th statement fails
SeedScripts == 0..Len(SeedStatements)
Script(k) == IF k = 0 THEN SeedStatements ELSE FaultyScript(k)

\* session.execute(text(statement)): the statement runs at once, in the
\* transaction of the session; a refused INSERT has drawn its id all the same
Execute(w, sq, st) ==
    IF st.table = "posts_tags"
    THEN [w |-> [w EXCEPT !.posts_tags = @ \cup {st.row}], seq |-> sq, err |-> "None"]
    ELSE LET w1 == [w EXCEPT ![st.table] = (sq[st.table] :> st.row) @@ w[st.table]]
             sq1 == [sq EXCEPT ![st.table] = @ + 1]
         IN  IF IntegrityError(w1)
             THEN [w |-> w, seq |-> sq1, err |-> "IntegrityError"]
             ELSE [w |-> w1, seq |-> sq1, err |-> "None"]

\* a slip: a failing statement is skipped and the loop goes on
RECURSIVE ExecuteAll_skip_failed(_, _, _, _)
ExecuteAll_skip_failed(w, sq, stmts, k) ==
    IF k > Len(stmts) THEN [w |-> w, seq |-> sq, err |-> "None"]
    ELSE LET r == Execute(w, sq, stmts[k]) IN ExecuteAll_skip_failed(r.w, r.seq, stmts, k + 1)

\* for statement in sql_script.split(";"): the first exception leaves the loop
RECURSIVE ExecuteAll(_, _, _, _)
ExecuteAll(w, sq, stmts, k) ==
    IF k > Len(stmts) THEN [w |-> w, seq |-> sq, err |-> "None"]
    ELSE LET r == Execute(w, sq, stmts[k])
         IN  IF r.err # "None" THEN r ELSE ExecuteAll(r.w, r.seq, stmts, k + 1)

\* a slip: the session is closed, self._session keeps it
close_session_not_forgotten(sess) == sess

\* close_session: the session is closed and forgotten
close_session(sess) == 0

\* the body of reset_database after drop_all / create_all: the seed statements
\* run in one transaction of a new session
reset_database(stmts) ==
    LET r == ExecuteAll(FreshStore, FreshSeq, stmts, 1)
    IN  Outcome(r.w, r.seq, "None", 0, r.err, {})

-----------------------------------------------------------------------------
(* Inputs *)

TagIdValues == {NoneIds} \cup {IdList(l) : l \in TagIdLists}

UserCreates ==
    [first_name : FirstNames, nickname : Nicknames, job_title : JobTitles \cup {None}]
PostCreates == [title : Titles, content : Contents, tag_ids : TagIdValues]
TagCreates == [title : TagTitles]

\* the keyword arguments an Update object is built from: any subset of the
\* fields, each with a value
Opt(k, vals) == {<<>>} \cup {k :> v : v \in vals}
UserUpdateArgs ==
    {n @@ j : n \in Opt("nickname", Nicknames), j \in Opt("job_title", JobTitles \cup {None})}
PostUpdateArgs == {t @@ g : t \in Opt("title", Titles), g \in Opt("tag_ids", TagIdValues)}
TagUpdateArgs == Opt("title", TagTitles)

\* Update(**kwargs): the passed fields are set, the others keep their default None
Default(k) == IF k = "tag_ids" THEN NoneIds ELSE None
UpdateObject(fields, kwargs) ==
    [fields_set |-> DOMAIN kwargs,
     values |-> [k \in fields |-> IF k \in DOMAIN kwargs THEN kwargs[k] ELSE Default(k)]]

\* the fields a request body (REST, RPC tool) or a GraphQL input supplies
UserUpdateBodies == {f @@ a : f \in Opt("first_name", FirstNames), a \in UserUpdateArgs}
PostUpdateBodies ==
    {t @@ c @@ g : t \in Opt("title", Titles), c \in Opt("content", Contents),
                   g \in Opt("tag_ids", {IdList(<<>>), IdList(<<1>>)})}

UserUpdates == {UpdateObject(UserUpdateFields, a) : a \in UserUpdateArgs}
PostUpdates == {UpdateObject(PostUpdateFields, a) : a \in PostUpdateArgs}
TagUpdates == {UpdateObject(TagUpdateFields, a) : a \in TagUpdateArgs}

-----------------------------------------------------------------------------
(* The operations of the manager, called one at a time *)

Requests == 1..NumRequests
Idle == [pc |-> "idle", session |-> 0, op |-> "none", args |-> <<>>, err |-> "None", made |-> 0]

NoLast == [op |-> "none", args |-> <<>>, ret |-> "None", id |-> 0, err |-> "None",
           missing |-> {}, body |-> "None", flushed |-> EmptyStore, end |-> "none",
           pre |-> EmptyStore, adhoc |-> {}, status |-> 0]

Init ==
    /\ db = EmptyStore
    /\ seq = [users |-> 1, posts |-> 1, tags |-> 1]
    /\ _session = 0
    /\ work = NoWork
    /\ last = NoLast
    /\ reqs = [r \in Requests |-> Idle]
    /\ adhoc = {}
    /\ now = 0
    /\ opened = 0

CreateUser ==
    \E d \in UserCreates :
        /\ seq.users <= MaxUserId
        /\ Call("create_user", [data |-> d], create_user(View(work, db), seq, d))

UpdateUser ==
    \E i \in UserIds, d \in UserUpdates :
        Call("update_user", [id |-> i, data |-> d], update_user(View(work, db), seq, i, d))

DeleteUser ==
    \E i \in UserIds :
        Call("delete_user", [id |-> i], delete_user(View(work, db), seq, i))

GetUser ==
    \E i \in UserIds :
        Call("get_user", [id |-> i], get_user(View(work, db), seq, i))

CreatePost ==
    \E a \in UserIds, d \in PostCreates :
        /\ seq.posts <= MaxPostId
        /\ Call("create_post", [author_id |-> a, data |-> d],
                create_post(View(work, db), seq, a, d))

UpdatePost ==
    \E i \in PostIds, d \in PostUpdates :
        Call("update_post", [id |-> i, data |-> d], update_post(View(work, db), seq, i, d))

DeletePost ==
    \E i \in PostIds :
        Call("delete_post", [id |-> i], delete_post(View(work, db), seq, i))

GetPost ==
    \E i \in PostIds :
        Call("get_post", [id |-> i], get_post(View(work, db), seq, i))

CreateTag ==
    \E d \in TagCreates :
        /\ seq.tags <= MaxTagId
        /\ Call("create_tag", [data |-> d], create_tag(View(work, db), seq, d))

UpdateTag ==
    \E i \in TagIds, d \in TagUpdates :
        Call("update_tag", [id |-> i, data |-> d], update_tag(View(work, db), seq, i, d))

DeleteTag ==
    \E i \in TagIds :
        Call("delete_tag", [id |-> i], delete_tag(View(work, db), seq, i))

GetTag ==
    \E i \in TagIds :
        Call("get_tag", [id |-> i], get_tag(View(work, db), seq, i))

ResetDatabase ==
    \E k \in SeedScripts :
        LET out == reset_database(Script(k))
            fin == get_session_exit(FreshStore, out)
        IN  /\ last.op = "none"
            /\ _session' = get_session_enter(close_session(_session))
            /\ db' = fin.db
            /\ work' = fin.work
            /\ seq' = out.seq
            /\ last' = Result("reset_database", [script |-> k], out, fin, db)
            /\ adhoc' = {}
            /\ UNCHANGED <<reqs, now, opened>>

\* the caller takes the result of the call
Return ==
    /\ last.op # "none"
    /\ last' = NoLast
    /\ UNCHANGED <<db, seq, _session, work, reqs, adhoc, now, opened>>

Next ==
    \/ Return
    \/ CreateUser \/ GetUser \/ UpdateUser \/ DeleteUser
    \/ CreatePost \/ GetPost \/ UpdatePost \/ DeletePost
    \/ CreateTag \/ GetTag \/ UpdateTag \/ DeleteTag
    \/ ResetDatabase

Spec == Init /\ [][Next]_vars

-----------------------------------------------------------------------------
(* Creates, deletes and resets, with the history of the ad hoc rows *)

AdHocCreateUser ==
    \E d \in UserCreates :
        /\ seq.users <= MaxUserId
        /\ AdHoc("create_user", [data |-> d], create_user(View(work, db), seq, d))

AdHocCreatePost ==
    \E a \in UserIds, d \in PostCreates :
        /\ seq.posts <= MaxPostId
        /\ AdHoc("create_post", [author_id |-> a, data |-> d],
                 create_post(View(work, db), seq, a, d))

AdHocCreateTag ==
    \E d \in TagCreates :
        /\ seq.tags <= MaxTagId
        /\ AdHoc("create_tag", [data |-> d], create_tag(View(work, db), seq, d))

AdHocUpdateTag ==
    \E i \in TagIds, d \in TagUpdates :
        AdHoc("update_tag", [id |-> i, data |-> d], update_tag(View(work, db), seq, i, d))

AdHocDeleteUser ==
    \E i \in UserIds :
        AdHoc("delete_user", [id |-> i], delete_user(View(work, db), seq, i))

AdHocDeleteTag ==
    \E i \in TagIds :
        AdHoc("delete_tag", [id |-> i], delete_tag(View(work, db), seq, i))

ResetNext ==
    \/ Return
    \/ AdHocCreateUser \/ AdHocCreatePost \/ AdHocCreateTag
    \/ AdHocUpdateTag \/ AdHocDeleteUser \/ AdHocDeleteTag
    \/ ResetDatabase

ResetSpec == Init /\ [][ResetNext]_vars

-----------------------------------------------------------------------------
(* The calls on posts with the clock running: every call is made at a later  *)
(* time than the one before                                                  *)

Timed(op, args, out) ==
    /\ now < MaxClock
    /\ Invoke(op, args, out)
    /\ now' = now + 1
    /\ UNCHANGED <<reqs, adhoc, opened>>

TimedCreatePost ==
    \E a \in UserIds, d \in PostCreates :
        /\ seq.posts <= MaxPostId
        /\ Timed("create_post", [author_id |-> a, data |-> d],
                 create_post(View(work, db), seq, a, d))

TimedUpdatePost ==
    \E i \in PostIds, d \in PostUpdates :
        Timed("update_post", [id |-> i, data |-> d], update_post(View(work, db), seq, i, d))

TimedGetPost ==
    \E i \in PostIds :
        Timed("get_post", [id |-> i], get_post(View(work, db), seq, i))

TimedUpdateTag ==
    \E i \in TagIds, d \in TagUpdates :
        Timed("update_tag", [id |-> i, data |-> d], update_tag(View(work, db), seq, i, d))

\* a service started, later than the seed was written, on a store holding the seed
TimeInit ==
    /\ db = reset_database(SeedStatements).w
    /\ seq = reset_database(SeedStatements).seq
    /\ _session = 0
    /\ work = NoWork
    /\ last = NoLast
    /\ reqs = [r \in Requests |-> Idle]
    /\ adhoc = {}
    /\ now = 1
    /\ opened = 0

TimeNext == Return \/ TimedCreatePost \/ TimedUpdatePost \/ TimedGetPost \/ TimedUpdateTag

TimeSpec == TimeInit /\ [][TimeNext]_vars

-----------------------------------------------------------------------------
(* search_users and search_posts.  Here the text columns hold strings as     *)
(* sequences of characters, wrapped so that NULL / None is a value too.      *)

TextChars == {"a", "A", "_"}
Strings == UNION {[1..n -> TextChars] : n \in 0..MaxStrLen}

NoText == [isNone |-> TRUE, s |-> <<>>]
Text(s) == [isNone |-> FALSE, s |-> s]

\* case folding of ILIKE
Lower(c) == IF c = "A" THEN "a" ELSE c

\* text LIKE pattern, case-insensitively: % stands for any run of characters,
\* _ for any one character, every other character for itself
RECURSIVE ilike(_, _)
ilike(text, pattern) ==
    IF pattern = <<>> THEN text = <<>>
    ELSE IF Head(pattern) = "%"
         THEN ilike(text, Tail(pattern)) \/ (text # <<>> /\ ilike(Tail(text), pattern))
         ELSE /\ text # <<>>
              /\ (Head(pattern) = "_" \/ Lower(Head(pattern)) = Lower(Head(text)))
              /\ ilike(Tail(text), Tail(pattern))

\* f"%{value}%"
Contains(value) == <<"%">> \o value \o <<"%">>

\* the filters list: one ilike per search parameter that is truthy
Filters(params, columns) == {c \in columns : ~params[c].isNone /\ params[c].s # <<>>}

\* or_(*filters); a NULL column matches no pattern
Selected(row, params, columns) ==
    \/ Filters(params, columns) = {}
    \/ \E c \in Filters(params, columns) :
         ~row[c].isNone /\ ilike(row[c].s, Contains(params[c].s))

Matching(w, model, columns, params) ==
    {i \in DOMAIN w[model] : Selected(w[model][i], params, columns)}

\* the statement has no ORDER BY: the store returns the selected rows in an
\* order of its choosing
Orders(ids) == {o \in [1..Cardinality(ids) -> ids] : \A i, j \in DOMAIN o : i # j => o[i] # o[j]}

Min(a, b) == IF a < b THEN a ELSE b

\* query.offset(skip).limit(limit)
OffsetLimit(order, skip, limit) == SubSeq(order, skip + 1, Min(Len(order), skip + limit))

UserSearchColumns == {"nickname", "job_title"}
PostSearchColumns == {"title", "content"}

OptStrings == {NoText} \cup {Text(x) : x \in Strings}
Pages == [skip : 0..MaxPage, limit : 1..MaxPage]
UserSearches == [nickname : OptStrings, job_title : {NoText, Text(<<"A">>)}, page : Pages]
PostSearches == [title : OptStrings, content : {NoText, Text(<<"_">>)}, page : Pages]

\* a search follows a call whose result has been taken, or is the next page
\* (skip = 1) of the search just made with skip = 0 and the same filters
FollowsUp(op, params, columns) ==
    /\ last.op = op
    /\ ~last.paged
    /\ last.args.page.skip = 0
    /\ params.page.skip = 1
    /\ \A c \in columns : params[c] = last.args[c]

Search(op, model, columns, params) ==
    /\ last.op = "none" \/ FollowsUp(op, params, columns)
    /\ \E order \in Orders(Matching(View(work, db), model, columns, params)) :
        /\ _session' = get_session_enter(_session)
        /\ last' = [op |-> op, args |-> params,
                    rows |-> OffsetLimit(order, params.page.skip, params.page.limit),
                    err |-> "None", paged |-> last.op # "none",
                    page0 |-> IF last.op = "none" THEN <<>> ELSE last.rows]
        /\ UNCHANGED <<db, seq, work, reqs, adhoc, now, opened>>

SearchUsers == \E params \in UserSearches : Search("search_users", "users", UserSearchColumns, params)

SearchPosts == \E params \in PostSearches : Search("search_posts", "posts", PostSearchColumns, params)

\* the texts of the rows: the strings of full length
RowStrings == {x \in Strings : Len(x) = MaxStrLen}
SearchUserRows ==
    [first_name : {Text(<<"a">>)}, nickname : {Text(x) : x \in RowStrings},
     job_title : {NoText, Text(<<"a">>)}]
SearchPostRows ==
    [author_id : {1}, title : {Text(x) : x \in RowStrings}, content : {Text(<<"A", "_">>)},
     updated_at : {0}]

\* a store that holds users, or posts, with any texts
SearchInit ==
    /\ \/ \E u \in [UserIds -> SearchUserRows] :
            /\ \A i, j \in UserIds : i # j => u[i].nickname # u[j].nickname
            /\ db = [EmptyStore EXCEPT !.users = u]
       \/ \E q \in [PostIds -> SearchPostRows] : db = [EmptyStore EXCEPT !.posts = q]
    /\ seq = [users |-> MaxUserId + 1, posts |-> MaxPostId + 1, tags |-> 1]
    /\ _session = 0
    /\ work = NoWork
    /\ last = NoLast
    /\ reqs = [r \in Requests |-> Idle]
    /\ adhoc = {}
    /\ now = 0
    /\ opened = 0

SearchNext == SearchUsers \/ SearchPosts \/ Return

SearchSpec == SearchInit /\ [][SearchNext]_vars

-----------------------------------------------------------------------------
(* The adapters: api_service.py (REST), graphql_service.py, mcp_service.py   *)

\* REST and the RPC tools: the body is validated into the Update schema, so the
\* fields of the body are the set fields
ParsedUpdate(fields, body) == UpdateObject(fields, body)

\* GraphQL: the resolver builds the Update schema from its input object passing
\* every field by keyword, a field the input left out as None
GraphqlUpdate(fields, input) ==
    UpdateObject(fields, [k \in fields |-> IF k \in DOMAIN input THEN input[k] ELSE Default(k)])

AdapterUpdate(via, fields, body) ==
    IF via = "graphql" THEN GraphqlUpdate(fields, body) ELSE ParsedUpdate(fields, body)

FrontEnds == {"rest", "graphql", "mcp"}

\* PUT /users/{id}, the updateUser mutation and the update_user tool
RestUpdateUser ==
    \E i \in UserIds, b \in UserUpdateBodies :
        Call("update_user", [via |-> "rest", id |-> i, body |-> b],
             update_user(View(work, db), seq, i, AdapterUpdate("rest", UserUpdateFields, b)))

GraphqlUpdateUser ==
    \E i \in UserIds, b \in UserUpdateBodies :
        Call("update_user", [via |-> "graphql", id |-> i, body |-> b],
             update_user(View(work, db), seq, i, AdapterUpdate("graphql", UserUpdateFields, b)))

McpUpdateUser ==
    \E i \in UserIds, b \in UserUpdateBodies :
        Call("update_user", [via |-> "mcp", id |-> i, body |-> b],
             update_user(View(work, db), seq, i, AdapterUpdate("mcp", UserUpdateFields, b)))

\* PUT /posts/{id}, the updatePost mutation and the update_post tool
RestUpdatePost ==
    \E i \in PostIds, b \in PostUpdateBodies :
        Call("update_post", [via |-> "rest", id |-> i, body |-> b],
             update_post(View(work, db), seq, i, AdapterUpdate("rest", PostUpdateFields, b)))

GraphqlUpdatePost ==
    \E i \in PostIds, b \in PostUpdateBodies :
        Call("update_post", [via |-> "graphql", id |-> i, body |-> b],
             update_post(View(work, db), seq, i, AdapterUpdate("graphql", PostUpdateFields, b)))

McpUpdatePost ==
    \E i \in PostIds, b \in PostUpdateBodies :
        Call("update_post", [via |-> "mcp", id |-> i, body |-> b],
             update_post(View(work, db), seq, i, AdapterUpdate("mcp", PostUpdateFields, b)))

\* POST /posts/
RestCreatePost ==
    \E a \in UserIds, d \in PostCreates :
        /\ seq.posts <= MaxPostId
        /\ Call("create_post", [via |-> "rest", author_id |-> a, data |-> d],
                create_post(View(work, db), seq, a, d))

\* the requests of the three services, one at a time, on a store reset to the seed
AdapterNext ==
    \/ Return
    \/ ResetDatabase
    \/ RestCreatePost
    \/ RestUpdateUser \/ GraphqlUpdateUser \/ McpUpdateUser
    \/ RestUpdatePost \/ GraphqlUpdatePost \/ McpUpdatePost

AdapterSpec == Init /\ [][AdapterNext]_vars

-----------------------------------------------------------------------------
(* Concurrent requests of one service.  api_service.py declares its handlers *)
(* with def, so the server runs each request on a worker thread; all of them *)
(* call the module-level db_manager.  A request enters get_session, runs the *)
(* body of its operation on the session it was handed, and leaves            *)
(* get_session with a commit or a rollback of self._session.                 *)

ConcPostCreates == [title : {"t1"}, content : Contents,
                    tag_ids : {NoneIds, IdList(<<1>>), IdList(<<2>>)}]

Creating == {r \in Requests : reqs[r].pc = "body" /\ reqs[r].op = "create_post"}

\* the request enters get_session (db.py 38-42) for the call it makes
Enter(r, op, args) ==
    /\ reqs[r].pc = "idle"
    /\ _session # 0 \/ opened < MaxSessions
    /\ _session' = get_session_enter(_session)
    /\ opened' = IF _session = 0 THEN opened + 1 ELSE opened
    /\ reqs' = [reqs EXCEPT ![r] = [pc |-> "body", session |-> _session', op |-> op,
                                    args |-> args, err |-> "None", made |-> 0]]
    /\ UNCHANGED <<db, seq, work, last, adhoc, now>>

\* POST /posts/
EnterCreatePost ==
    \E r \in Requests, a \in UserIds, d \in ConcPostCreates :
        /\ seq.posts + Cardinality(Creating) <= MaxPostId
        /\ Enter(r, "create_post", [author_id |-> a, data |-> d])

\* DELETE /posts/{post_id}
EnterDeletePost ==
    \E r \in Requests, i \in PostIds : Enter(r, "delete_post", [id |-> i])

\* the body of the operation, on the session the request was handed.  While it
\* is the manager's session its flushes join that session's transaction; a
\* session closed meanwhile takes them into a transaction nobody commits
Body ==
    \E r \in Requests :
        /\ reqs[r].pc = "body"
        /\ LET own == reqs[r].session = _session
               v == IF own THEN View(work, db) ELSE db
               out == IF reqs[r].op = "create_post"
                      THEN create_post(v, seq, reqs[r].args.author_id, reqs[r].args.data)
                      ELSE delete_post(v, seq, reqs[r].args.id)
           IN  /\ work' = IF own /\ out.err = "None" THEN [active |-> TRUE, w |-> out.w] ELSE work
               /\ seq' = out.seq
               /\ reqs' = [reqs EXCEPT ![r].pc = "exit", ![r].err = out.err,
                                       ![r].made = IF reqs[r].op = "create_post" THEN out.id ELSE 0]
        /\ UNCHANGED <<db, _session, last, adhoc, now, opened>>

\* the request leaves get_session (db.py 43-46): self._session.commit(), or
\* self._session.rollback() when the body raised, on whatever self._session is
\* by now; on None both raise AttributeError and nothing is committed
Exit ==
    \E r \in Requests :
        /\ reqs[r].pc = "exit"
        /\ db' = IF _session # 0 /\ reqs[r].err = "None" THEN View(work, db) ELSE db
        /\ work' = IF _session # 0 THEN NoWork ELSE work
        /\ reqs' = [reqs EXCEPT ![r] = Idle]
        /\ UNCHANGED <<seq, _session, last, adhoc, now, opened>>

\* GET /reset, first part: close_session (db.py 56) closes the session, which
\* rolls back its open transaction, and forgets it
StartReset ==
    \E r \in Requests :
        /\ reqs[r].pc = "idle"
        /\ opened < MaxSessions
        /\ \A q \in Requests : reqs[q].pc # "reset"
        /\ _session' = close_session(_session)
        /\ work' = NoWork
        /\ reqs' = [reqs EXCEPT ![r] = [Idle EXCEPT !.pc = "reset", !.op = "reset_database"]]
        /\ UNCHANGED <<db, seq, last, adhoc, now, opened>>

\* GET /reset, second part: drop_all, create_all and the seed statements,
\* committed through get_session (db.py 58-68)
FinishReset ==
    \E r \in Requests :
        /\ reqs[r].pc = "reset"
        /\ _session' = get_session_enter(_session)
        /\ opened' = IF _session = 0 THEN opened + 1 ELSE opened
        /\ db' = get_session_exit(FreshStore, reset_database(SeedStatements)).db
        /\ seq' = reset_database(SeedStatements).seq
        /\ work' = NoWork
        /\ reqs' = [reqs EXCEPT ![r] = Idle]
        /\ UNCHANGED <<last, adhoc, now>>

\* a service started on a store holding the seed data
ConcInit ==
    /\ db = reset_database(SeedStatements).w
    /\ seq = reset_database(SeedStatements).seq
    /\ _session = 0
    /\ work = NoWork
    /\ last = NoLast
    /\ reqs = [r \in Requests |-> Idle]
    /\ adhoc = {}
    /\ now = 0
    /\ opened = 0

ConcNext == EnterCreatePost \/ EnterDeletePost \/ Body \/ Exit \/ StartReset \/ FinishReset

ConcSpec == ConcInit /\ [][ConcNext]_vars

-----------------------------------------------------------------------------
(* The sessions of one DatabaseManager, counted as they are constructed *)

\* one public operation; get_session constructs a session when there is none
Sessioned(op, args, out) ==
    /\ _session # 0 \/ opened < MaxSessions
    /\ Invoke(op, args, out)
    /\ opened' = IF _session = 0 THEN opened + 1 ELSE opened
    /\ UNCHANGED <<reqs, adhoc, now>>

SessionedCreateTag ==
    \E d \in TagCreates :
        /\ seq.tags <= MaxTagId
        /\ Sessioned("create_tag", [data |-> d], create_tag(View(work, db), seq, d))

SessionedGetTag ==
    \E i \in TagIds :
        Sessioned("get_tag", [id |-> i], get_tag(View(work, db), seq, i))

SessionedDeleteTag ==
    \E i \in TagIds :
        Sessioned("delete_tag", [id |-> i], delete_tag(View(work, db), seq, i))

\* close_session called on the manager (db.py 48-52)
CloseSession ==
    /\ last.op = "none"
    /\ _session' = close_session(_session)
    /\ last' = [NoLast EXCEPT !.op = "close_session"]
    /\ UNCHANGED <<db, seq, work, reqs, adhoc, now, opened>>

\* reset_database: close_session, then the seed through get_session, which
\* constructs the next session
SessionedResetDatabase ==
    \E k \in SeedScripts :
        LET out == reset_database(Script(k))
            fin == get_session_exit(FreshStore, out)
            closed == close_session(_session)
        IN  /\ last.op = "none"
            /\ closed # 0 \/ opened < MaxSessions
            /\ _session' = IF closed = 0 THEN opened + 1 ELSE closed
            /\ opened' = IF closed = 0 THEN opened + 1 ELSE opened
            /\ db' = fin.db
            /\ work' = fin.work
            /\ seq' = out.seq
            /\ last' = Result("reset_database", [script |-> k], out, fin, db)
            /\ UNCHANGED <<reqs, adhoc, now>>

SessionNext ==
    \/ Return
    \/ SessionedCreateTag \/ SessionedGetTag \/ SessionedDeleteTag
    \/ CloseSession \/ SessionedResetDatabase

SessionSpec == Init /\ [][SessionNext]_vars

-----------------------------------------------------------------------------
(* Properties *)

\* the tag_ids list of the last create_post / update_post, <<>> when none was given
GivenTagIds ==
    IF last.op = "create_post" THEN last.args.data.tag_ids.ids
    ELSE IF last.op = "update_post" /\ "tag_ids" \in last.args.data.fields_set
         THEN last.args.data.values["tag_ids"].ids
         ELSE <<>>

UnknownTagIds == Range(GivenTagIds) \ DOMAIN last.pre.tags

\* C1: a create_post whose author exists and whose tag_ids name at least one
\* unknown tag raises 'Tags not found' with exactly the unknown ids, and the
\* store is left as it was: no Post row, no association row
C1_CreatePostUnknownTags ==
    (/\ last.op = "create_post"
     /\ last.args.author_id \in DOMAIN last.pre.users
     /\ UnknownTagIds # {})
    => /\ last.err = "ValueError"
       /\ last.missing = UnknownTagIds
       /\ db = last.pre
       /\ ~work.active

\* a create_post that named a known and an unknown tag has been refused
C1_Witness ==
    /\ last.op = "create_post"
    /\ last.err = "ValueError"
    /\ last.args.author_id \in DOMAIN last.pre.users
    /\ UnknownTagIds # {}
    /\ UnknownTagIds # Range(GivenTagIds)
    /\ last.pre.posts # <<>>

\* C2: an update_post of an existing post whose supplied tag_ids name an unknown
\* tag raises 'Tags not found' and changes neither the post's scalar fields nor
\* its tag set
C2_UpdatePostAllOrNothing ==
    (/\ last.op = "update_post"
     /\ last.args.id \in DOMAIN last.pre.posts
     /\ UnknownTagIds # {})
    => /\ last.err = "ValueError"
       /\ db.posts[last.args.id] = last.pre.posts[last.args.id]
       /\ TagsOf(db, last.args.id) = TagsOf(last.pre, last.args.id)
       /\ db = last.pre

\* an update_post that supplied a new title, a known and an unknown tag has been
\* refused on a post that had a tag
C2_Witness ==
    /\ last.op = "update_post"
    /\ last.err = "ValueError"
    /\ last.args.id \in DOMAIN last.pre.posts
    /\ "title" \in last.args.data.fields_set
    /\ last.args.data.values["title"] # last.pre.posts[last.args.id].title
    /\ UnknownTagIds # {}
    /\ UnknownTagIds # Range(GivenTagIds)
    /\ TagsOf(last.pre, last.args.id) # {}

\* C3: after a successful update_post that supplied a tag_ids list, the post's
\* tag set is exactly the ids of the list, whatever it was before, and no Tag
\* row has been deleted
C3_UpdatePostReplacesTags ==
    (/\ last.op = "update_post"
     /\ last.ret = "Row"
     /\ "tag_ids" \in last.args.data.fields_set
     /\ ~last.args.data.values["tag_ids"].isNone)
    => /\ TagsOf(db, last.args.id) = Range(GivenTagIds)
       /\ db.tags = last.pre.tags

\* a post tagged with two tags has been updated to a list of one of them
C3_Witness ==
    /\ last.op = "update_post"
    /\ last.ret = "Row"
    /\ "tag_ids" \in last.args.data.fields_set
    /\ Cardinality(TagsOf(last.pre, last.args.id)) = 2
    /\ Cardinality(TagsOf(db, last.args.id)) = 1
    /\ Len(GivenTagIds) = 1

\* C5: every operation of the manager returns with no transaction left open:
\* a body that completed, an early 'not found' return included, has been
\* committed (the store is what the body flushed); a body that raised has been
\* rolled back (the store is what it was) and its exception reaches the caller
C5_CommittedOrRolledBack ==
    (last.op # "none")
    => /\ ~work.active
       /\ last.body = "None" => (last.end = "commit" /\ last.err = "None" /\ db = last.flushed)
       /\ last.body # "None" =>
            (last.end = "rollback" /\ last.err = last.body
             /\ db = (IF last.op = "reset_database" THEN FreshStore ELSE last.pre))

\* an update returned 'not found' early and was committed, with rows in the store
C5_WitnessEarlyReturn ==
    /\ last.op = "update_post"
    /\ last.args.id \notin DOMAIN last.pre.posts
    /\ last.ret = "None"
    /\ last.err = "None"
    /\ last.end = "commit"
    /\ db.posts # <<>>

Duplicates(w, model, column) ==
    \E i, j \in DOMAIN w[model] : i # j /\ w[model][i][column] = w[model][j][column]

\* the row the last create / update would have written clashes on a unique column
ClashesOn(model, column) ==
    \/ /\ last.op = (IF model = "users" THEN "create_user" ELSE "create_tag")
       /\ \E i \in DOMAIN last.pre[model] :
            last.pre[model][i][column] = last.args.data[column]
    \/ /\ last.op = (IF model = "users" THEN "update_user" ELSE "update_tag")
       /\ last.args.id \in DOMAIN last.pre[model]
       /\ column \in last.args.data.fields_set
       /\ \E i \in DOMAIN last.pre[model] \ {last.args.id} :
            last.pre[model][i][column] = last.args.data.values[column]

\* C7: a create or update that would duplicate User.nickname or Tag.title raises
\* the store's IntegrityError as it is, leaves the committed store as it was and
\* the manager usable (no transaction open: the next operation sees the prior
\* committed state); so no two Users share a nickname and no two Tags a title
C7_UniquenessViolation ==
    /\ (ClashesOn("users", "nickname") \/ ClashesOn("tags", "title"))
       => /\ last.err = "IntegrityError"
          /\ db = last.pre
          /\ ~work.active
          /\ View(work, db) = last.pre
    /\ ~Duplicates(db, "users", "nickname")
    /\ ~Duplicates(db, "tags", "title")

\* an update_user to the nickname of another user has been refused
C7_Witness ==
    /\ last.op = "update_user"
    /\ ClashesOn("users", "nickname")
    /\ last.err = "IntegrityError"
    /\ Cardinality(DOMAIN db.users) = 2

PostsOfUser(w, user_id) == {p \in DOMAIN w.posts : w.posts[p].author_id = user_id}

\* C8: after delete_user(U) returned True every post of U is gone (get_post
\* returns None) with its association rows, and no Tag row and no post of
\* another user (nor its tags) has been removed
C8_DeleteUserCascades ==
    (last.op = "delete_user" /\ last.ret = "True")
    => /\ \A p \in PostsOfUser(last.pre, last.args.id) :
            /\ get_post(View(work, db), seq, p).ret = "None"
            /\ \A pt \in db.posts_tags : pt[1] # p
       /\ db.tags = last.pre.tags
       /\ \A p \in DOMAIN last.pre.posts \ PostsOfUser(last.pre, last.args.id) :
            /\ p \in DOMAIN db.posts
            /\ db.posts[p] = last.pre.posts[p]
            /\ TagsOf(db, p) = TagsOf(last.pre, p)
       /\ last.args.id \notin DOMAIN db.users

\* a user with a tagged post has been deleted while another user's tagged post stays
C8_Witness ==
    /\ last.op = "delete_user"
    /\ last.ret = "True"
    /\ \E p \in PostsOfUser(last.pre, last.args.id) : TagsOf(last.pre, p) # {}
    /\ \E p \in DOMAIN db.posts : TagsOf(db, p) # {}

\* C9: after delete_tag(T) returned True every post is still there with its
\* fields unchanged, and its tag set is its previous tag set minus T
C9_DeleteTagKeepsPosts ==
    (last.op = "delete_tag" /\ last.ret = "True")
    => /\ db.posts = last.pre.posts
       /\ \A p \in DOMAIN last.pre.posts :
            TagsOf(db, p) = TagsOf(last.pre, p) \ {last.args.id}
       /\ \A pt \in db.posts_tags : pt[2] # last.args.id
       /\ last.args.id \notin DOMAIN db.tags
       /\ db.users = last.pre.users

\* a tag has been deleted that a post with two tags referenced
C9_Witness ==
    /\ last.op = "delete_tag"
    /\ last.ret = "True"
    /\ \E p \in DOMAIN last.pre.posts :
         /\ last.args.id \in TagsOf(last.pre, p)
         /\ Cardinality(TagsOf(last.pre, p)) = 2
         /\ Cardinality(TagsOf(db, p)) = 1

DeleteModel ==
    IF last.op = "delete_user" THEN "users"
    ELSE IF last.op = "delete_post" THEN "posts" ELSE "tags"

\* what a delete of the same id would return now
DeleteAgain ==
    IF last.op = "delete_user" THEN delete_user(View(work, db), seq, last.args.id)
    ELSE IF last.op = "delete_post" THEN delete_post(View(work, db), seq, last.args.id)
    ELSE delete_tag(View(work, db), seq, last.args.id)

\* C10: delete_user, delete_post and delete_tag return True exactly when a row
\* with the id existed before the call; after True the get by id returns None
\* and a second delete of the id returns False
C10_DeleteReturnsFound ==
    (last.op \in {"delete_user", "delete_post", "delete_tag"})
    => /\ last.err = "None"
       /\ (last.ret = "True") <=> (last.args.id \in DOMAIN last.pre[DeleteModel])
       /\ last.ret \in {"True", "False"}
       /\ last.ret = "True" =>
            /\ SelectById(View(work, db), seq, DeleteModel, last.args.id).ret = "None"
            /\ DeleteAgain.ret = "False"

\* a delete_post of an id whose row was deleted before has returned False
C10_Witness ==
    /\ last.op = "delete_post"
    /\ last.ret = "False"
    /\ last.args.id < seq.posts
    /\ db.posts # <<>>

\* the last call was an update through an adapter, of a row that existed
AdapterUpdated ==
    /\ last.op \in {"update_user", "update_post"}
    /\ "via" \in DOMAIN last.args
    /\ last.args.id \in DOMAIN last.pre[IF last.op = "update_user" THEN "users" ELSE "posts"]

\* C4: through every front-end (REST, GraphQL, RPC tool) an update_user or
\* update_post leaves the fields the request omitted as they were, and a request
\* that supplies a single field succeeds and writes that field (stated where the
\* supplied value cannot clash: no other user, and the tag the body may name exists)
C4_PartialUpdateEveryFrontEnd ==
    AdapterUpdated =>
        LET model == IF last.op = "update_user" THEN "users" ELSE "posts"
            body == last.args.body
            before == last.pre[model][last.args.id]
            after == db[model][last.args.id]
        IN  /\ \A c \in DOMAIN before \ (DOMAIN body \cup {"updated_at"}) : after[c] = before[c]
            /\ (model = "posts" /\ "tag_ids" \notin DOMAIN body)
                 => TagsOf(db, last.args.id) = TagsOf(last.pre, last.args.id)
            /\ (Cardinality(DOMAIN body) = 1 /\ Cardinality(DOMAIN last.pre.users) = 1
                /\ 1 \in DOMAIN last.pre.tags)
                 => /\ last.err = "None"
                    /\ \A c \in DOMAIN body \ {"tag_ids"} : after[c] = body[c]

\* C6: no two requests in flight at the same time use the same session object
C6_SessionIsolation ==
    \A r1, r2 \in Requests :
        (r1 # r2 /\ reqs[r1].pc # "idle" /\ reqs[r2].pc # "idle")
        => reqs[r1].session # reqs[r2].session

\* the table the last update / delete addressed
TargetModel ==
    IF last.op \in {"update_user", "delete_user"} THEN "users"
    ELSE IF last.op \in {"update_post", "delete_post"} THEN "posts" ELSE "tags"

\* C11: an update or a delete of an id that matches no row returns the absence
\* indicator (None for update, False for delete), raises nothing and leaves the
\* store as it was; update_post does so even when it supplies unknown tag ids
C11_AbsentIdReportsAbsence ==
    (/\ last.op \in {"update_user", "update_post", "update_tag",
                      "delete_user", "delete_post", "delete_tag"}
     /\ last.args.id \notin DOMAIN last.pre[TargetModel])
    => /\ last.err = "None"
       /\ last.ret = (IF last.op \in {"update_user", "update_post", "update_tag"}
                      THEN "None" ELSE "False")
       /\ db = last.pre
       /\ ~work.active

\* an update_post of a missing post that supplied an unknown tag id returned None
C11_Witness ==
    /\ last.op = "update_post"
    /\ last.args.id \notin DOMAIN last.pre.posts
    /\ UnknownTagIds # {}
    /\ last.ret = "None"
    /\ last.err = "None"
    /\ db.posts # <<>>

\* C12: an update of an existing row with an empty field-set changes nothing:
\* the row and, for a post, its tag set (the whole store, in fact) are as
\* before, and the call returns the projection of the unchanged row
C12_EmptyUpdateIsNoOp ==
    (/\ last.op \in {"update_user", "update_post", "update_tag"}
     /\ "data" \in DOMAIN last.args
     /\ last.args.id \in DOMAIN last.pre[TargetModel]
     /\ last.args.data.fields_set = {})
    => /\ last.err = "None"
       /\ last.ret = "Row"
       /\ last.id = last.args.id
       /\ db[TargetModel][last.args.id] = last.pre[TargetModel][last.args.id]
       /\ last.op = "update_post" => TagsOf(db, last.args.id) = TagsOf(last.pre, last.args.id)
       /\ db = last.pre

\* a post with tags has been updated with an empty field-set
C12_Witness ==
    /\ last.op = "update_post"
    /\ last.args.id \in DOMAIN last.pre.posts
    /\ last.args.data.fields_set = {}
    /\ last.ret = "Row"
    /\ TagsOf(db, last.args.id) # {}

\* what the first k - 1 statements of the bundled script write
SeedPrefix(k) == ExecuteAll(EmptyStore, FreshSeq, SubSeq(SeedStatements, 1, k - 1), 1).w

\* the last call was a reset whose script failed at a statement
ResetFailed == last.op = "reset_database" /\ last.args.script # 0

\* C13 as claimed: when the k-th seed statement fails, the failure is raised and
\* the effects of statements 1..k-1 remain in the store
C13_PartiallyRepopulated ==
    ResetFailed => (last.err # "None" /\ db = SeedPrefix(last.args.script))

\* C13 as the code has it: the seed statements run in one transaction, so when
\* the k-th fails the failure is raised, the schema is left recreated and the
\* effects of statements 1..k-1 are rolled back: the store is empty, no
\* transaction is open, and nothing of the store before the reset is left
C13_FailedSeedRolledBack ==
    ResetFailed
    => /\ last.err = "IntegrityError"
       /\ last.end = "rollback"
       /\ db = EmptyStore
       /\ ~work.active

\* a reset failed at its third statement, after the first two had been flushed,
\* on a store that held rows
C13_Witness ==
    /\ ResetFailed
    /\ last.args.script = 3
    /\ last.flushed = SeedPrefix(3)
    /\ last.flushed.tags # <<>> /\ last.flushed.users # <<>>
    /\ last.pre.posts # <<>>
    /\ db = EmptyStore

\* the store and the sequences after a reset with the bundled script
SeedStore == ExecuteAll(EmptyStore, FreshSeq, SeedStatements, 1).w
SeedSeq == ExecuteAll(EmptyStore, FreshSeq, SeedStatements, 1).seq

ResetDone == last.op = "reset_database" /\ last.err = "None"

\* C14 as claimed: after a successful reset the get by id of every record that
\* a create_* call had made before the reset returns None, and the seed tags,
\* users and posts are there
C14_AdHocIdsReturnNone ==
    ResetDone
    => /\ \A x \in last.adhoc : SelectById(View(work, db), seq, x[1], x[2]).ret = "None"
       /\ db.tags # <<>> /\ db.users # <<>> /\ db.posts # <<>>

\* C14 as the code has it: after a successful reset the store is exactly the
\* seed data whatever was done before (so no ad hoc record is left); the get by
\* id of an ad hoc record's id returns None unless the reset gave that id to a
\* seed record; the seed tags, users and posts are there
C14_ResetGivesSeed ==
    ResetDone
    => /\ db = SeedStore
       /\ seq = SeedSeq
       /\ ~work.active
       /\ \A x \in last.adhoc :
            x[2] \notin DOMAIN SeedStore[x[1]]
            => SelectById(View(work, db), seq, x[1], x[2]).ret = "None"
       /\ db.tags # <<>> /\ db.users # <<>> /\ db.posts # <<>>

\* a reset succeeded on a store that held an ad hoc tag beyond the seed's ids
\* and no post
C14_Witness ==
    /\ ResetDone
    /\ <<"tags", 2>> \in last.adhoc
    /\ last.pre.posts = <<>>
    /\ db = SeedStore

\* value occurs in text as a substring, letter case ignored
Occurs(value, text) ==
    \E i \in 1..(Len(text) - Len(value) + 1) :
        \A j \in 1..Len(value) : Lower(text[i + j - 1]) = Lower(value[j])

SearchModel == IF last.op = "search_users" THEN "users" ELSE "posts"
SearchColumns == IF last.op = "search_users" THEN UserSearchColumns ELSE PostSearchColumns

\* the filters the last search provided (present and not empty)
Provided == {c \in SearchColumns : ~last.args[c].isNone /\ last.args[c].s # <<>>}

\* the rows in which a provided filter value occurs as a substring of its
\* column; every row when no filter is provided
SubstringMatches ==
    {i \in DOMAIN db[SearchModel] :
        \/ Provided = {}
        \/ \E c \in Provided :
             ~db[SearchModel][i][c].isNone /\ Occurs(last.args[c].s, db[SearchModel][i][c].s)}

\* C15: with pagination covering all rows, search_users / search_posts return
\* exactly the rows in which at least one provided filter value occurs as a
\* case-insensitive substring of its field, and every row when no filter is
\* provided
C15_SearchIsSubstringOr ==
    (/\ last.op \in {"search_users", "search_posts"}
     /\ last.args.page.skip = 0
     /\ last.args.page.limit >= Cardinality(DOMAIN db[SearchModel]))
    => Range(last.rows) = SubstringMatches

\* the rows the last search selected
Matched == Matching(db, SearchModel, SearchColumns, last.args)

Max(a, b) == IF a > b THEN a ELSE b

\* C16: a search with skip = s and limit = l over N matching rows returns
\* min(l, max(0, N - s)) rows, all matching, none twice; and the search with
\* skip = 1 returns the rows of the search with skip = 0 without the first
C16_Pagination ==
    (last.op \in {"search_users", "search_posts"})
    => /\ Len(last.rows) = Min(last.args.page.limit,
                               Max(0, Cardinality(Matched) - last.args.page.skip))
       /\ Range(last.rows) \subseteq Matched
       /\ Cardinality(Range(last.rows)) = Len(last.rows)
       /\ (last.paged /\ Len(last.page0) = Cardinality(Matched))
            => last.rows = OffsetLimit(last.page0, 1, last.args.page.limit)

\* the posts that the last call changed: a column other than updated_at, or the tag set
Mutated ==
    {p \in DOMAIN last.pre.posts \cap DOMAIN db.posts :
        \/ \E c \in DOMAIN db.posts[p] \ {"updated_at"} : db.posts[p][c] # last.pre.posts[p][c]
        \/ TagsOf(db, p) # TagsOf(last.pre, p)}

\* C18: after a successful update_post that changed the post, its tag set
\* alone included, the post's updated_at is later than it was before the call;
\* a call that did not change a post leaves its updated_at as it was
C18_UpdatedAtRefreshed ==
    (last.op # "none")
    => \A p \in DOMAIN last.pre.posts \cap DOMAIN db.posts :
         /\ (last.op = "update_post" /\ last.ret = "Row" /\ p \in Mutated)
              => db.posts[p].updated_at > last.pre.posts[p].updated_at
         /\ p \notin Mutated => db.posts[p].updated_at = last.pre.posts[p].updated_at

CreateModel ==
    IF last.op = "create_user" THEN "users"
    ELSE IF last.op = "create_post" THEN "posts" ELSE "tags"

\* the columns a create sets from what its caller supplied
Supplied ==
    IF last.op = "create_post" THEN {"title", "content"} ELSE DOMAIN last.args.data

\* C17: the id a successful create_user, create_tag or create_post returns is
\* the id of no row that was in the store before the call, and a get by that
\* id right after returns the row with the caller-supplied fields as given
\* (for a post also its author and, as its tag set, the ids of tag_ids)
C17_CreateGetRoundTrip ==
    (last.op \in {"create_user", "create_post", "create_tag"} /\ last.ret = "Row")
    => /\ last.id \notin DOMAIN last.pre[CreateModel]
       /\ SelectById(View(work, db), seq, CreateModel, last.id).ret = "Row"
       /\ SelectById(View(work, db), seq, CreateModel, last.id).id = last.id
       /\ \A c \in Supplied : db[CreateModel][last.id][c] = last.args.data[c]
       /\ last.op = "create_post" =>
            /\ db.posts[last.id].author_id = last.args.author_id
            /\ TagsOf(db, last.id) = Range(GivenTagIds)
       /\ \A i \in DOMAIN last.pre[CreateModel] :
            db[CreateModel][i] = last.pre[CreateModel][i]

\* a post with two tags has been created after an earlier post was deleted
C17_Witness ==
    /\ last.op = "create_post"
    /\ last.ret = "Row"
    /\ last.id = 2
    /\ last.pre.posts = <<>>
    /\ Cardinality(TagsOf(db, last.id)) = 2

\* C19: a create_post whose author_id matches no user returns None and
\* persists nothing, also when its tag_ids name unknown tags (no error is raised)
C19_CreatePostUnknownAuthor ==
    (last.op = "create_post" /\ last.args.author_id \notin DOMAIN last.pre.users)
    => /\ last.err = "None"
       /\ last.ret = "None"
       /\ db = last.pre
       /\ ~work.active

\* a create_post for a missing author that named an unknown tag returned None,
\* on a store that holds a user and a tag
C19_Witness ==
    /\ last.op = "create_post"
    /\ last.args.author_id \notin DOMAIN last.pre.users
    /\ UnknownTagIds # {}
    /\ last.ret = "None"
    /\ last.err = "None"
    /\ db.users # <<>> /\ db.tags # <<>>

\* C20: no call but a reset changes the author_id of a post that exists before
\* and after it; a post leaves the store only by delete_post of it or by
\* delete_user of its author, and enters it only by create_post with the
\* author_id given there
C20_AuthorImmutable ==
    (last.op \notin {"none", "reset_database"})
    => /\ \A p \in DOMAIN last.pre.posts \cap DOMAIN db.posts :
            db.posts[p].author_id = last.pre.posts[p].author_id
       /\ \A p \in DOMAIN last.pre.posts \ DOMAIN db.posts :
            \/ last.op = "delete_post" /\ last.args.id = p
            \/ last.op = "delete_user" /\ last.args.id = last.pre.posts[p].author_id
       /\ \A p \in DOMAIN db.posts \ DOMAIN last.pre.posts :
            last.op = "create_post" /\ db.posts[p].author_id = last.args.author_id

\* an update_post has changed the title and the tags of a post of user 2 while
\* user 1 exists
C20_Witness ==
    /\ last.op = "update_post"
    /\ last.ret = "Row"
    /\ DOMAIN db.users = {1, 2}
    /\ db.posts[last.args.id].author_id = 2
    /\ db.posts[last.args.id].title # last.pre.posts[last.args.id].title
    /\ TagsOf(db, last.args.id) # TagsOf(last.pre, last.args.id)

\* the requests that have flushed a new post and not yet left get_session,
\* on the session that still is the manager's
Flushed ==
    {r \in Requests : /\ reqs[r].pc = "exit" /\ reqs[r].err = "None"
                      /\ reqs[r].made # 0 /\ reqs[r].session = _session}

\* request q leaves get_session in this step: its commit or its rollback runs
Leaves(q) == reqs[q].pc = "exit" /\ reqs'[q].pc = "idle"

\* C21: the commit or rollback of a request A leaves the flushed, uncommitted
\* write of every other request B as it was: A's commit does not make it
\* durable and A's rollback does not discard it
C21_RequestsIndependent ==
    [][\A r \in Flushed, q \in Requests :
          (q # r /\ Leaves(q) /\ reqs[r].made \in DOMAIN View(work, db).posts)
          => /\ reqs[r].made \notin DOMAIN db'.posts
             /\ reqs[r].made \in DOMAIN View(work', db').posts]_vars

\* C22: a request that is between acquiring the session and its commit or
\* rollback finds the manager's session non-null and the one it acquired
C22_InFlightSessionOpen ==
    \A r \in Requests :
        reqs[r].pc \in {"body", "exit"} => (_session # 0 /\ _session = reqs[r].session)

\* a call of a public operation other than close_session happens in this step
Operates == last.op = "none" /\ last'.op \notin {"none", "close_session"}
Closes == last.op = "none" /\ last'.op = "close_session"

\* the session after the step was constructed in the step: it is none of the
\* sessions the manager had before
FreshSession == opened' = opened + 1 /\ _session' = opened'

\* the lifecycle but for the session a reset leaves
Lifecycle ==
    /\ (Operates /\ last'.op # "reset_database")
         => IF _session = 0 THEN FreshSession ELSE _session' = _session /\ opened' = opened
    /\ Closes => (_session' = 0 /\ opened' = opened)
    /\ (Closes /\ _session = 0) => UNCHANGED <<db, seq, _session, work, opened>>
    /\ (~Operates /\ ~Closes) => UNCHANGED <<_session, opened>>

\* C23 as stated: no session after construction, the first operation creates
\* one, later operations reuse it until close_session or reset_database,
\* after either of which the session is None and the next operation creates a
\* fresh one; close_session when there is no session is a no-op
C23_NoneAfterReset ==
    /\ _session = 0
    /\ [][Lifecycle /\ (Operates /\ last'.op = "reset_database" => _session' = 0)]_vars

\* C23, amended: as stated, but reset_database itself creates the fresh
\* session, for its seed statements, and the next operation reuses that one
C23_SessionLifecycle ==
    /\ _session = 0
    /\ [][Lifecycle /\ (Operates /\ last'.op = "reset_database" => FreshSession)]_vars

\* a reset has replaced the session of earlier operations by a second one
C23_Witness == last.op = "reset_database" /\ opened = 2 /\ _session = 2

\* C24: in every committed state every post's author_id is the id of an
\* existing user and every posts_tags row refers to an existing post and an
\* existing tag
C24_ReferentialIntegrity ==
    /\ \A p \in DOMAIN db.posts : db.posts[p].author_id \in DOMAIN db.users
    /\ \A pt \in db.posts_tags : pt[1] \in DOMAIN db.posts /\ pt[2] \in DOMAIN db.tags

\* a post that had tags has been deleted, its tags and its author are still there
C24_Witness ==
    /\ last.op = "delete_post" /\ last.ret = "True"
    /\ TagsOf(last.pre, last.args.id) # {}
    /\ TagsOf(last.pre, last.args.id) \subseteq DOMAIN db.tags
    /\ last.pre.posts[last.args.id].author_id \in DOMAIN db.users

\* the last call was a create_post for an existing author or an update_post of
\* an existing post, with a tag_ids list
TagListCall ==
    \/ /\ last.op = "create_post"
       /\ last.args.author_id \in DOMAIN last.pre.users
       /\ ~last.args.data.tag_ids.isNone
    \/ /\ last.op = "update_post"
       /\ last.args.id \in DOMAIN last.pre.posts
       /\ "tag_ids" \in last.args.data.fields_set
       /\ ~last.args.data.values["tag_ids"].isNone

\* C26: a create_post or update_post whose tag_ids list holds ids of existing
\* tags only, repetitions included, succeeds, and the post's tag set is the
\* set of the distinct ids of the list
C26_KnownTagsAccepted ==
    (TagListCall /\ Range(GivenTagIds) \subseteq DOMAIN last.pre.tags)
    => /\ last.err = "None"
       /\ last.ret = "Row"
       /\ TagsOf(db, last.id) = Range(GivenTagIds)

\* the last call was an update_post of an existing post that passed tag_ids
\* explicitly, as the empty list or as None
ExplicitEmptyOrNull ==
    /\ last.op = "update_post"
    /\ last.args.id \in DOMAIN last.pre.posts
    /\ "tag_ids" \in last.args.data.fields_set
    /\ GivenTagIds = <<>>

\* C27: an update_post that passes tag_ids = [] leaves the post with no tag,
\* one that passes tag_ids = None leaves its tag set as it was; either applies
\* the other passed fields and raises nothing
C27_EmptyAndNullTagLists ==
    ExplicitEmptyOrNull
    => /\ last.err = "None"
       /\ last.ret = "Row"
       /\ TagsOf(db, last.args.id) =
            IF last.args.data.values["tag_ids"].isNone
            THEN TagsOf(last.pre, last.args.id) ELSE {}
       /\ \A c \in last.args.data.fields_set \ {"tag_ids"} :
            db.posts[last.args.id][c] = last.args.data.values[c]

\* a post with tags has been updated with tag_ids = [] and a new title
C27_Witness ==
    /\ ExplicitEmptyOrNull
    /\ ~last.args.data.values["tag_ids"].isNone
    /\ TagsOf(last.pre, last.args.id) # {}
    /\ TagsOf(db, last.args.id) = {}
    /\ "title" \in last.args.data.fields_set
    /\ db.posts[last.args.id].title # last.pre.posts[last.args.id].title

\* the last call was a REST request to PUT /users/{id}, PUT /posts/{id} or
\* POST /posts/
RestRequest ==
    /\ last.op \in {"update_user", "update_post", "create_post"}
    /\ "via" \in DOMAIN last.args
    /\ last.args.via = "rest"

\* the row the request addresses (the author, for POST /posts/) does not exist
RestTargetAbsent ==
    IF last.op = "create_post" THEN last.args.author_id \notin DOMAIN last.pre.users
    ELSE last.args.id \notin DOMAIN last.pre[IF last.op = "update_user" THEN "users" ELSE "posts"]

\* C25: PUT /users/{id} and PUT /posts/{id} for an id that matches no row and
\* POST /posts/ for an author_id that matches no user respond with status 404,
\* and a 'Tags not found' error responds with status 400
C25_AbsenceIs404 ==
    RestRequest
    => /\ RestTargetAbsent => last.status = 404
       /\ last.err = "ValueError" => last.status = 400

====
